---- MODULE Spec2Model ----
(***************************************************************************)
(* Model of odbc-api's variadic cell (parameter/varcell.rs) and of the     *)
(* input parameter collections (parameter_collection.rs).                  *)
(*                                                                         *)
(* Spec     : the life of one VarCell: one constructor call followed by    *)
(*            hide_truncation calls.                                        *)
(* BindSpec : one parameter collection queried for its parameter set size  *)
(*            and bound to one statement.                                   *)
(***************************************************************************)
EXTENDS Integers, Sequences, FiniteSets, TLC

\* ------------------------------------------------------------------ bounds
\* Longest buffer handed to from_buffer / from_vec / from_string / slice new.
MaxLen == 3
\* Bytes are 0..MaxByte (a u8 in the source); 0 is the terminating zero.
MaxByte == 2
\* Largest LENGTH of a VarCell<[u8; LENGTH], K>; inputs go one byte beyond it.
MaxCap == 2
\* Largest number of hide_truncation calls made on one cell.
MaxHides == 2
\* Longest explicitly enumerated slice of parameters.
MaxSlice == 3

\* ------------------------------------------------------------------ kinds
Kinds == {"Text", "Binary"}

TERMINATING_ZEROES(kind) == IF kind = "Text" THEN 1 ELSE 0

\* ------------------------------------------------------------- indicator
NULL_DATA == -1

NO_TOTAL == -4

Null == [tag |-> "Null", len |-> 0]

NoTotal == [tag |-> "NoTotal", len |-> 0]

Length(n) == [tag |-> "Length", len |-> n]

is_truncated(ind, length_in_buffer) ==
    \/ ind.tag = "NoTotal"
    \/ ind.tag = "Length" /\ ind.len > length_in_buffer

to_isize(ind) ==
    CASE ind.tag = "Null" -> NULL_DATA
      [] ind.tag = "NoTotal" -> NO_TOTAL
      [] OTHER -> ind.len

from_isize(i) ==
    IF i = NULL_DATA THEN Null
    ELSE IF i = NO_TOTAL THEN NoTotal
    ELSE Length(i)

\* ------------------------------------------------------------------ bytes
Byte == 0..MaxByte

ByteSeqs(n) == UNION {[1..k -> Byte] : k \in 0..n}

Zeroes(n) == [i \in 1..n |-> 0]

\* ------------------------------------------------------------------- cell
Shapes == {"box", "array", "slice", "slice_mut"}

\* No cell has been constructed yet.
NoCell == [shape |-> "none", kind |-> "none", buffer |-> <<>>, indicator |-> 0]

\* The call panicked: no cell exists.
Panic == [shape |-> "panic", kind |-> "none", buffer |-> <<>>, indicator |-> 0]

IsCell(c) == c.shape \in Shapes

VarCell(shape, kind, buffer, ind) ==
    [shape |-> shape, kind |-> kind, buffer |-> buffer, indicator |-> ind]

ends_in_zeroes(buffer, number_of_zeroes) ==
    /\ Len(buffer) >= number_of_zeroes
    /\ \A i \in 1..number_of_zeroes : buffer[Len(buffer) - i + 1] = 0

from_buffer_unchecked(shape, kind, buffer, ind) ==
    VarCell(shape, kind, buffer, to_isize(ind))

from_buffer(shape, kind, buffer, ind) ==
    IF /\ is_truncated(ind, Len(buffer))
       /\ ~ends_in_zeroes(buffer, TERMINATING_ZEROES(kind))
    THEN Panic
    ELSE VarCell(shape, kind, buffer, to_isize(ind))

indicator(c) == from_isize(c.indicator)

capacity(c) == Len(c.buffer)

is_complete_ignore_terminator(c) ==
    ~is_truncated(indicator(c), Len(c.buffer))

is_complete(c) ==
    LET slice == c.buffer
        max_value_length ==
            IF ends_in_zeroes(slice, TERMINATING_ZEROES(c.kind))
            THEN Len(slice) - TERMINATING_ZEROES(c.kind)
            ELSE Len(slice)
    IN  ~is_truncated(indicator(c), max_value_length)

None == [tag |-> "None", bytes |-> <<>>]

Some(bytes) == [tag |-> "Some", bytes |-> bytes]

\* An index out of range or an unsigned subtraction below zero.
BytesPanic == [tag |-> "Panic", bytes |-> <<>>]

\* &slice[..n]
Prefix(slice, n) ==
    IF n < 0 \/ n > Len(slice) THEN BytesPanic ELSE Some(SubSeq(slice, 1, n))

as_bytes_trust_indicator(c) ==
    LET slice == c.buffer
        ind == indicator(c)
    IN  CASE ind.tag = "Null" -> None
          [] ind.tag = "NoTotal" ->
                Prefix(slice, Len(slice) - TERMINATING_ZEROES(c.kind))
          [] OTHER -> Prefix(slice, ind.len)

as_bytes(c) ==
    LET slice == c.buffer
        ind == indicator(c)
    IN  CASE ind.tag = "Null" -> None
          [] ind.tag = "NoTotal" ->
                Prefix(slice, Len(slice) - TERMINATING_ZEROES(c.kind))
          [] OTHER ->
                IF is_complete(c)
                THEN Prefix(slice, ind.len)
                ELSE Prefix(slice, Len(slice) - TERMINATING_ZEROES(c.kind))

hide_truncation_unguarded(c) ==
    [c EXCEPT !.indicator = Len(c.buffer) - TERMINATING_ZEROES(c.kind)]

hide_truncation_full_length(c) ==
    IF ~is_complete(c)
    THEN [c EXCEPT !.indicator = Len(c.buffer)]
    ELSE c

hide_truncation(c) ==
    IF ~is_complete(c)
    THEN IF Len(c.buffer) < TERMINATING_ZEROES(c.kind)
         THEN Panic
         ELSE [c EXCEPT !.indicator = Len(c.buffer) - TERMINATING_ZEROES(c.kind)]
    ELSE c

\* ----------------------------------------------------------- constructors
null_empty_buffer(kind) == from_buffer("box", kind, <<>>, Null)

null(kind) == from_buffer("box", kind, <<0>>, Null)

from_vec(kind, val) == from_buffer("box", kind, val, Length(Len(val)))

from_string(kind, val) == from_vec(kind, val)

slice_NULL(kind) == VarCell("slice", kind, <<0>>, NULL_DATA)

slice_new(kind, value) == from_buffer("slice", kind, value, Length(Len(value)))

array_NULL(kind, LENGTH) == VarCell("array", kind, Zeroes(LENGTH), NULL_DATA)

array_new_capped(kind, LENGTH, bytes) ==
    IF Len(bytes) > LENGTH
    THEN IF LENGTH = 0
         THEN Panic
         ELSE VarCell("array", kind,
                      [SubSeq(bytes, 1, LENGTH) EXCEPT ![LENGTH] = 0], LENGTH)
    ELSE VarCell("array", kind,
                 bytes \o Zeroes(LENGTH - Len(bytes)), Len(bytes))

array_new_off_by_one(kind, LENGTH, bytes) ==
    IF Len(bytes) >= LENGTH
    THEN IF LENGTH = 0
         THEN Panic
         ELSE VarCell("array", kind,
                      [SubSeq(bytes, 1, LENGTH) EXCEPT ![LENGTH] = 0], Len(bytes))
    ELSE VarCell("array", kind,
                 bytes \o Zeroes(LENGTH - Len(bytes)), Len(bytes))

array_new(kind, LENGTH, bytes) ==
    IF Len(bytes) > LENGTH
    THEN IF LENGTH = 0
         THEN Panic
         ELSE VarCell("array", kind,
                      [SubSeq(bytes, 1, LENGTH) EXCEPT ![LENGTH] = 0], Len(bytes))
    ELSE VarCell("array", kind,
                 bytes \o Zeroes(LENGTH - Len(bytes)), Len(bytes))

\* ------------------------------------------------- parameter collections
\* index as u16: the cast keeps the low 16 bits.
U16Modulus == 65536

\* A collection is a single value or a slice; a slice element is named by
\* its index.
SingleValue == [shape |-> "single", len |-> 1]

Slice(n) == [shape |-> "slice", len |-> n]

NoColl == [shape |-> "none", len |-> 0]

\* The slices bound: the short ones, and one whose last indices do not fit
\* in a u16.
SliceLens == (0..MaxSlice) \cup {U16Modulus + 1}

Collections == {SingleValue} \cup {Slice(n) : n \in SliceLens}

single_parameter_set_size(c) == 1

slice_parameter_set_size_len(c) == c.len

slice_parameter_set_size(c) == 1

\* One call of Statement::bind_input_parameter, as the statement saw it.
BindCall(pos, index, ok) == [pos |-> pos, index |-> index, ok |-> ok]

NoCall == BindCall(0, 0, TRUE)

\* index as u16
as_u16(index) == index % U16Modulus

\* index as u16 + 1 overflows u16
position_overflows(index) == as_u16(index) + 1 >= U16Modulus

\* index as u16 + 1, wrapping as a build without overflow checks does
slice_position(index) == (as_u16(index) + 1) % U16Modulus

\* The statement's bound positions, a set of integers kept as the set of its
\* maximal intervals <<lo, hi>>.
IsBound(bnd, pos) == \E iv \in bnd : iv[1] <= pos /\ pos <= iv[2]

BindPosition(bnd, pos) ==
    IF IsBound(bnd, pos) THEN bnd
    ELSE LET left == {iv \in bnd : iv[2] = pos - 1}
             right == {iv \in bnd : iv[1] = pos + 1}
             lo == IF left = {} THEN pos ELSE (CHOOSE iv \in left : TRUE)[1]
             hi == IF right = {} THEN pos ELSE (CHOOSE iv \in right : TRUE)[2]
         IN  (bnd \ (left \cup right)) \cup {<<lo, hi>>}

\* ------------------------------------------------------------------ state
VARIABLES
    cell,       \* the VarCell, NoCell before construction, Panic after a panic
    built,      \* the cell as its constructor returned it
    ctor,       \* the constructor that was called
    arg,        \* the arguments of that constructor
    hides,      \* number of hide_truncation calls made on the cell
    coll,       \* the parameter collection
    overflow_checks, \* whether the build panics on integer overflow
    setSize,    \* <<parameter_set_size()>> once it was asked, else <<>>
    index,      \* the slice elements bind_input_parameters_to has gone through
    calls,      \* number of bind calls the statement has received
    last,       \* the latest bind call the statement received
    bound,      \* the positions bound on the statement
    result      \* what bind_input_parameters_to returned, "none" before

vars == <<cell, built, ctor, arg, hides,
          coll, overflow_checks, setSize, index, calls, last, bound, result>>

cellVars == <<cell, built, ctor, arg, hides>>

bindVars == <<coll, overflow_checks, setSize, index, calls, last, bound, result>>

Arg(kind, bytes, ind, cap) ==
    [kind |-> kind, bytes |-> bytes, ind |-> ind, cap |-> cap]

NoArg == Arg("none", <<>>, Null, 0)

Indicators == {Null, NoTotal} \cup {Length(n) : n \in 0..(MaxLen + 1)}

DoFromBuffer ==
    /\ ctor = "none"
    /\ \E shape \in Shapes, kind \in Kinds, buffer \in ByteSeqs(MaxLen),
          ind \in Indicators :
        /\ arg' = Arg(kind, buffer, ind, Len(buffer))
        /\ cell' = from_buffer(shape, kind, buffer, ind)
    /\ built' = cell'
    /\ ctor' = "from_buffer"
    /\ hides' = 0
    /\ UNCHANGED bindVars

DoNull ==
    /\ ctor = "none"
    /\ \E kind \in Kinds :
        /\ arg' = Arg(kind, <<>>, Null, 0)
        /\ cell' = null(kind)
    /\ built' = cell'
    /\ ctor' = "null"
    /\ hides' = 0
    /\ UNCHANGED bindVars

DoFromVec ==
    /\ ctor = "none"
    /\ \E kind \in Kinds, val \in ByteSeqs(MaxLen) :
        /\ arg' = Arg(kind, val, Null, 0)
        /\ cell' = from_vec(kind, val)
    /\ built' = cell'
    /\ ctor' = "from_vec"
    /\ hides' = 0
    /\ UNCHANGED bindVars

DoFromString ==
    /\ ctor = "none"
    /\ \E kind \in Kinds, val \in ByteSeqs(MaxLen) :
        /\ arg' = Arg(kind, val, Null, 0)
        /\ cell' = from_string(kind, val)
    /\ built' = cell'
    /\ ctor' = "from_string"
    /\ hides' = 0
    /\ UNCHANGED bindVars

DoSliceNULL ==
    /\ ctor = "none"
    /\ \E kind \in Kinds :
        /\ arg' = Arg(kind, <<>>, Null, 0)
        /\ cell' = slice_NULL(kind)
    /\ built' = cell'
    /\ ctor' = "slice_NULL"
    /\ hides' = 0
    /\ UNCHANGED bindVars

DoSliceNew ==
    /\ ctor = "none"
    /\ \E kind \in Kinds, value \in ByteSeqs(MaxLen) :
        /\ arg' = Arg(kind, value, Null, 0)
        /\ cell' = slice_new(kind, value)
    /\ built' = cell'
    /\ ctor' = "slice_new"
    /\ hides' = 0
    /\ UNCHANGED bindVars

DoArrayNULL ==
    /\ ctor = "none"
    /\ \E kind \in Kinds, LENGTH \in 0..MaxCap :
        /\ arg' = Arg(kind, <<>>, Null, LENGTH)
        /\ cell' = array_NULL(kind, LENGTH)
    /\ built' = cell'
    /\ ctor' = "array_NULL"
    /\ hides' = 0
    /\ UNCHANGED bindVars

DoArrayNew ==
    /\ ctor = "none"
    /\ \E kind \in Kinds, LENGTH \in 0..MaxCap, bytes \in ByteSeqs(MaxCap + 1) :
        /\ arg' = Arg(kind, bytes, Null, LENGTH)
        /\ cell' = array_new(kind, LENGTH, bytes)
    /\ built' = cell'
    /\ ctor' = "array_new"
    /\ hides' = 0
    /\ UNCHANGED bindVars

DoHideTruncation ==
    /\ IsCell(cell)
    /\ hides < MaxHides
    /\ cell' = hide_truncation(cell)
    /\ hides' = hides + 1
    /\ UNCHANGED <<built, ctor, arg>>
    /\ UNCHANGED bindVars

Init ==
    /\ cell = NoCell
    /\ built = NoCell
    /\ ctor = "none"
    /\ arg = NoArg
    /\ hides = 0
    /\ coll = NoColl
    /\ overflow_checks = FALSE
    /\ setSize = <<>>
    /\ index = 0
    /\ calls = 0
    /\ last = NoCall
    /\ bound = {}
    /\ result = "none"

Next ==
    \/ DoFromBuffer
    \/ DoNull
    \/ DoFromVec
    \/ DoFromString
    \/ DoSliceNULL
    \/ DoSliceNew
    \/ DoArrayNULL
    \/ DoArrayNew
    \/ DoHideTruncation

Spec == Init /\ [][Next]_vars

\* ------------------------------------------------------- binding a collection
DoSingleParameterSetSize ==
    /\ coll.shape = "single"
    /\ setSize = <<>>
    /\ setSize' = <<single_parameter_set_size(coll)>>
    /\ UNCHANGED <<coll, overflow_checks, index, calls, last, bound, result>>
    /\ UNCHANGED cellVars

DoSliceParameterSetSize ==
    /\ coll.shape = "slice"
    /\ setSize = <<>>
    /\ setSize' = <<slice_parameter_set_size(coll)>>
    /\ UNCHANGED <<coll, overflow_checks, index, calls, last, bound, result>>
    /\ UNCHANGED cellVars

\* stmt.bind_input_parameter(position, parameter): the statement accepts
\* the call or reports a failure.
bind_input_parameter(pos, idx, ok) ==
    /\ calls' = calls + 1
    /\ last' = BindCall(pos, idx, ok)
    /\ bound' = IF ok THEN BindPosition(bound, pos) ELSE bound

\* stmt.bind_input_parameter(1, self).into_result(stmt)
DoSingleBind ==
    /\ coll.shape = "single"
    /\ result = "none"
    /\ \E ok \in BOOLEAN :
        /\ bind_input_parameter(1, 0, ok)
        /\ result' = IF ok THEN "Ok" ELSE "Err"
    /\ UNCHANGED <<coll, overflow_checks, setSize, index>>
    /\ UNCHANGED cellVars

\* One iteration of
\*   for (index, parameter) in self.iter().enumerate() {
\*       stmt.bind_input_parameter(index as u16 + 1, parameter)
\*           .into_result(stmt)?;
\*   }
DoSliceBind ==
    /\ coll.shape = "slice"
    /\ result = "none"
    /\ index < coll.len
    /\ IF overflow_checks /\ position_overflows(index)
       THEN /\ result' = "Panic"
            /\ UNCHANGED <<index, calls, last, bound>>
       ELSE \E ok \in BOOLEAN :
            /\ bind_input_parameter(slice_position(index), index, ok)
            /\ index' = IF ok THEN index + 1 ELSE index
            /\ result' = IF ok THEN "none" ELSE "Err"
    /\ UNCHANGED <<coll, overflow_checks, setSize>>
    /\ UNCHANGED cellVars

\* Ok(()) after the loop
DoSliceBindReturn ==
    /\ coll.shape = "slice"
    /\ result = "none"
    /\ index = coll.len
    /\ result' = "Ok"
    /\ UNCHANGED <<coll, overflow_checks, setSize, index, calls, last, bound>>
    /\ UNCHANGED cellVars

BindInit ==
    /\ cell = NoCell
    /\ built = NoCell
    /\ ctor = "none"
    /\ arg = NoArg
    /\ hides = 0
    /\ coll \in Collections
    /\ overflow_checks \in BOOLEAN
    /\ setSize = <<>>
    /\ index = 0
    /\ calls = 0
    /\ last = NoCall
    /\ bound = {}
    /\ result = "none"

BindNext ==
    \/ DoSingleParameterSetSize
    \/ DoSliceParameterSetSize
    \/ DoSingleBind
    \/ DoSliceBind
    \/ DoSliceBindReturn

BindSpec == BindInit /\ [][BindNext]_vars

\* ================================================================= claims
\* What the claims call "the kind's trailing-zero count".
TrailingZeroCount(kind) == IF kind = "Text" THEN 1 ELSE 0

LastByte(bytes) == bytes[Len(bytes)]

\* C1 (as stated): parameter_set_size() is 1 for a single value and the
\* slice length N for a slice of N values; an empty slice yields 0.
C1_SetSizeIsSliceLength ==
    setSize # <<>> =>
        setSize[1] = IF coll.shape = "single" THEN 1 ELSE coll.len

\* C1 (amended): parameter_set_size() is 1 for a single value and also 1 for
\* a slice of N values, whatever N is; an empty slice yields 1, not 0.
C1_SetSizeIsOne ==
    setSize # <<>> => setSize[1] = 1

C1_Witness ==
    /\ coll.shape = "slice"
    /\ coll.len = 0
    /\ setSize = <<1>>

\* C2 (as stated): for every byte sequence s and both kinds, the cell built
\* by from_vec(s) / from_string(s) has as_bytes() == Some(s) and
\* is_complete() == true.
C2_OwnedRoundTrip ==
    ctor \in {"from_vec", "from_string"} =>
        /\ IsCell(built)
        /\ as_bytes(built) = Some(arg.bytes)
        /\ is_complete(built)

\* C2 (amended): from_vec(s) / from_string(s) always builds a cell holding
\* buffer s and indicator Length(len s). For Binary, and for Text when s is
\* empty or its last byte is not 0, as_bytes() == Some(s) and is_complete()
\* is true. For Text when s ends in a 0 byte, is_complete() is false and
\* as_bytes() is s without its last byte.
C2_OwnedRoundTripUnlessTextEndsInZero ==
    ctor \in {"from_vec", "from_string"} =>
        /\ IsCell(built)
        /\ built.buffer = arg.bytes
        /\ indicator(built) = Length(Len(arg.bytes))
        /\ IF /\ arg.kind = "Text"
              /\ Len(arg.bytes) > 0
              /\ LastByte(arg.bytes) = 0
           THEN /\ ~is_complete(built)
                /\ as_bytes(built) =
                     Some(SubSeq(arg.bytes, 1, Len(arg.bytes) - 1))
           ELSE /\ is_complete(built)
                /\ as_bytes(built) = Some(arg.bytes)

C2_Witness ==
    /\ ctor = "from_vec"
    /\ arg.kind = "Binary"
    /\ arg.bytes = <<1, 0>>
    /\ as_bytes(built) = Some(<<1, 0>>)
    /\ is_complete(built)

\* C3: a fixed-capacity cell of capacity C built by new from an input longer
\* than C has as_bytes() of exactly C minus the kind's trailing-zero count
\* bytes, equal byte for byte to the first bytes of the input.
C3_TruncatedArrayBytesArePrefix ==
    (ctor = "array_new" /\ IsCell(built) /\ Len(arg.bytes) > arg.cap) =>
        as_bytes(built) =
            Some(SubSeq(arg.bytes, 1, arg.cap - TrailingZeroCount(arg.kind)))

\* C4: a fixed-capacity cell of capacity C built by new from an input of
\* length L > C has capacity() == C, last buffer byte 0, indicator() ==
\* Length(L) and is_complete() == false.
C4_TruncatedArrayState ==
    (ctor = "array_new" /\ IsCell(built) /\ Len(arg.bytes) > arg.cap) =>
        /\ capacity(built) = arg.cap
        /\ LastByte(built.buffer) = 0
        /\ indicator(built) = Length(Len(arg.bytes))
        /\ ~is_complete(built)

C4_Witness ==
    /\ ctor = "array_new"
    /\ IsCell(built)
    /\ arg.kind = "Binary"
    /\ arg.cap = 2
    /\ arg.bytes = <<1, 2, 1>>
    /\ indicator(built) = Length(3)

\* C5: from_buffer(buffer, indicator) panics exactly when the indicator is
\* NoTotal or Length(n) with n greater than the buffer length and the buffer
\* does not end in the kind's required zero bytes; otherwise it returns a
\* cell holding that buffer and that indicator. For Binary it never panics.
C5_FromBufferPanicsExactly ==
    ctor = "from_buffer" =>
        LET claimsTruncation ==
                \/ arg.ind = NoTotal
                \/ arg.ind.tag = "Length" /\ arg.ind.len > Len(arg.bytes)
            terminated ==
                \/ arg.kind = "Binary"
                \/ Len(arg.bytes) > 0 /\ LastByte(arg.bytes) = 0
        IN  /\ (built = Panic) <=> (claimsTruncation /\ ~terminated)
            /\ built # Panic =>
                /\ IsCell(built)
                /\ built.kind = arg.kind
                /\ built.buffer = arg.bytes
                /\ indicator(built) = arg.ind

C5_Witness ==
    /\ ctor = "from_buffer"
    /\ arg.kind = "Text"
    /\ arg.bytes = <<1, 2, 1>>
    /\ arg.ind = Length(4)
    /\ built = Panic

\* C6: bind_input_parameters_to on a single value issues exactly one bind
\* call, at position 1; on a slice of length N with every bind succeeding it
\* issues exactly N bind calls, the k-th binding the element at index k-1 to
\* position k, and returns success.
C6_BindingOrder ==
    /\ (calls >= 1 /\ (last.ok \/ coll.shape = "single")) =>
            (last.pos = calls /\ last.index = calls - 1)
    /\ (result # "none" /\ last.ok) => (result = "Ok" /\ calls = coll.len)
    /\ result = "Ok" => bound = (IF calls = 0 THEN {} ELSE {<<1, calls>>})

\* C7: if the bind call of a slice fails at position p, the failure is
\* returned, no bind call is issued for any position greater than p, and
\* the positions 1..p-1 stay bound.
C7_AbortAtFirstFailure ==
    (coll.shape = "slice" /\ calls >= 1 /\ ~last.ok) =>
        LET p == last.pos
        IN  /\ result = "Err"
            /\ \A iv \in bound : iv[2] <= p
            /\ p > 1 => \E iv \in bound : iv[1] <= 1 /\ p - 1 <= iv[2]

\* C8: hide_truncation changes nothing on a cell that is complete, and a
\* second call changes nothing after a first one.
C8_HideTruncationIdempotent ==
    [][(hides' = hides + 1 /\ (is_complete(cell) \/ hides >= 1))
        => cell' = cell]_vars

C8_Witness ==
    /\ hides = 2
    /\ IsCell(built)
    /\ ~is_complete(built)
    /\ IsCell(cell)
    /\ cell # built

\* C9: null() and the NULL constants yield indicator() == Null and
\* as_bytes() == None with an all-zero buffer; null() and the slice NULL
\* have capacity 1, the fixed-capacity NULL has capacity LENGTH.
C9_MissingValues ==
    ctor \in {"null", "slice_NULL", "array_NULL"} =>
        /\ IsCell(built)
        /\ built.kind = arg.kind
        /\ indicator(built) = Null
        /\ as_bytes(built) = None
        /\ \A i \in 1..Len(built.buffer) : built.buffer[i] = 0
        /\ ctor \in {"null", "slice_NULL"} => capacity(built) = 1
        /\ ctor = "array_NULL" => capacity(built) = arg.cap

C9_Witness ==
    /\ ctor = "null"
    /\ arg.kind = "Text"
    /\ built.buffer = <<0>>
    /\ as_bytes(built) = None

\* C10: a fixed-capacity cell of capacity C built by new from an input of
\* length exactly C whose last byte is non-zero is complete and as_bytes()
\* returns all C bytes of the input.
C10_ExactlyFullArray ==
    (/\ ctor = "array_new"
     /\ Len(arg.bytes) = arg.cap
     /\ arg.cap > 0
     /\ LastByte(arg.bytes) # 0) =>
        /\ IsCell(built)
        /\ is_complete(built)
        /\ as_bytes(built) = Some(arg.bytes)

C10_Witness ==
    /\ ctor = "array_new"
    /\ arg.kind = "Text"
    /\ arg.cap = 2
    /\ arg.bytes = <<1, 2>>
    /\ as_bytes(built) = Some(<<1, 2>>)

\* C11: as_bytes() on a cell built by a public constructor and passed through
\* any number of hide_truncation calls never fails; it is None iff the
\* indicator is Null; for NoTotal, and for Length(n) on a cell that is not
\* complete, it is the buffer without its last trailing-zero-count bytes; for
\* Length(n) on a complete cell it is the first n bytes; it is always a
\* prefix of the buffer, no longer than capacity().
C11_AsBytesCases ==
    IsCell(cell) =>
        LET ind == indicator(cell)
            got == as_bytes(cell)
            size == Len(cell.buffer)
            usable == size - TrailingZeroCount(cell.kind)
        IN  /\ got.tag \in {"None", "Some"}
            /\ (got = None) <=> (ind = Null)
            /\ (ind = NoTotal \/ (ind.tag = "Length" /\ ~is_complete(cell))) =>
                    /\ usable >= 0
                    /\ got = Some(SubSeq(cell.buffer, 1, usable))
            /\ (ind.tag = "Length" /\ is_complete(cell)) =>
                    /\ ind.len <= size
                    /\ got = Some(SubSeq(cell.buffer, 1, ind.len))
            /\ got.tag = "Some" =>
                    /\ Len(got.bytes) <= capacity(cell)
                    /\ \A i \in 1..Len(got.bytes) : got.bytes[i] = cell.buffer[i]

C11_Witness ==
    /\ ctor = "array_new"
    /\ arg.kind = "Text"
    /\ arg.cap = 2
    /\ arg.bytes = <<1, 2, 1>>
    /\ hides = 0
    /\ indicator(cell) = Length(3)
    /\ as_bytes(cell) = Some(<<1>>)

\* C12: hide_truncation on a cell that is not complete sets the indicator to
\* Length(capacity minus the kind's trailing-zero count) and changes nothing
\* else: buffer and capacity() are unchanged, as_bytes() returns the same
\* bytes as before the call, and is_complete() is true after it.
C12_HideTruncationFrame ==
    [][(hides' = hides + 1 /\ ~is_complete(cell)) =>
        /\ IsCell(cell')
        /\ indicator(cell') =
             Length(capacity(cell) - TrailingZeroCount(cell.kind))
        /\ cell'.buffer = cell.buffer
        /\ cell'.kind = cell.kind
        /\ cell'.shape = cell.shape
        /\ capacity(cell') = capacity(cell)
        /\ as_bytes(cell') = as_bytes(cell)
        /\ is_complete(cell')]_vars

C12_Witness ==
    /\ ctor = "from_buffer"
    /\ arg.kind = "Text"
    /\ arg.bytes = <<1, 2, 0>>
    /\ arg.ind = NoTotal
    /\ hides = 1
    /\ ~is_complete(built)
    /\ indicator(cell) = Length(2)
    /\ cell.buffer = built.buffer

====
